---- MODULE Spec2Model ----
(***************************************************************************)
(* Model of tool/clusterfuzz/stackdriver_logging.py: the Event Sender      *)
(* send_log, the Parameter Builder make_basic_params, the three senders    *)
(* send_start / send_success / send_failure and the decorator log().       *)
(*                                                                         *)
(* Python values are modelled as strings ("True", "False", "None", text);  *)
(* a dict is a function whose DOMAIN is its set of keys, so an absent key  *)
(* is a key outside the DOMAIN.  One step of the model is one externally   *)
(* visible step of wrapped(): a call of a sender, the call of the wrapped  *)
(* operation, the outer except clause, the finally clause.                 *)
(***************************************************************************)
EXTENDS Integers, Sequences, FiniteSets, TLC

\* ------------------------------------------------------------------ bounds
\* Wrapper invocations made by one process run.
MaxInvocations == 2
\* Largest number of positional arguments given to the wrapper.
MaxPos == 1

\* ------------------------------------------------------------ Python values
None == "None"

\* Python truthiness, as used by `if stacktrace:`, `if params['success']`
\* and `if params['disableGoma']`.
Truthy(v) == v \notin {"None", "False", ""}

\* dict[k] = v
Put(f, k, v) == [x \in (DOMAIN f) \cup {k} |-> IF x = k THEN v ELSE f[x]]

\* ------------------------------------------------------------------ inputs
\* func.__module__ of the wrapped operation, as its dotted components.
Modules == { <<"clusterfuzz", "commands", "reproduce">>, <<"__main__">> }

\* Values SESSION_ID can take in a process run (user:time:random).
SessionIds == { "alice:1.0:ab", "alice:2.0:cd" }

\* os.environ.get('USER') and common.get_version()
User == "alice"
Version == "1.2.3"

\* The parameters of make_basic_params other than `command`.
CallerParamNames == { "testcase_id", "build", "current", "disable_goma", "j",
                      "iterations", "disable_xvfb", "target_args", "edit_mode" }

ParamNames == CallerParamNames \cup {"command"}

FullKwargs(tc, goma) ==
  [ testcase_id |-> tc, build |-> "chromium", current |-> "False",
    disable_goma |-> goma, j |-> "None", iterations |-> "10",
    disable_xvfb |-> "False", target_args |-> "", edit_mode |-> "False" ]

Drop(f, k) == [x \in (DOMAIN f) \ {k} |-> f[x]]

\* Keyword arguments a caller gives to the wrapper: the full set
\* make_basic_params needs, that set less one, and that set plus one
\* (a name make_basic_params does not have, or `command` itself).
InputKwargs ==
  { FullKwargs(tc, g) : tc \in {"123", "456"}, g \in {"True", "False"} }
    \cup { Drop(FullKwargs("123", "False"), "testcase_id"),
           Drop(FullKwargs("123", "False"), "edit_mode"),
           Put(FullKwargs("123", "False"), "verbose", "True"),
           Put(FullKwargs("123", "False"), "command", "other") }

\* Positional arguments a caller gives to the wrapper.
InputArgs == UNION { [1..n -> {"123"}] : n \in 0..MaxPos }

\* Exception classes the wrapped operation raises.
FuncExceptions == { "KeyboardInterrupt", "ExpectedException", "ValueError" }

\* Where send_log can raise: nowhere, while loading the credentials
\* (lines 45-51, before the record is touched) or in the POST (line 80).
Faults == { "none", "cred", "post" }

\* Arguments of a direct call of send_log.
DirectSuccess == { "absent", "True", "False" }
DirectGoma == { "True", "False", "None" }
DirectStacktraces == { "None", "", "Traceback (most recent call last): ..." }

\* ------------------------------------------------------------------- state
VARIABLES
  sessionId,     \* SESSION_ID, set at module initialisation
  sessionsSeen,  \* session ids carried by the events sent so far in this run
  invocations,   \* wrapper invocations started so far
  pc,            \* position inside wrapped(), or "idle" between invocations
  inv,           \* the current invocation: func's module, args, kwargs
  events,        \* send_log calls of the current invocation, in order
  funcCalls,     \* calls of the wrapped operation in the current invocation
  trace,         \* steps of the current invocation, in order
  failures,      \* exceptions raised by send_log in the current invocation
  exc,           \* the exception being handled, or NoExc
  raised,        \* the exception the wrapped operation raised, or NoExc
  outcome,       \* what the caller observes, or NoOutcome
  direct         \* the send_log call made directly by the caller, or NoCall

vars == << sessionId, sessionsSeen, invocations, pc, inv, events, funcCalls,
           trace, failures, exc, raised, outcome, direct >>

NoExc == [cls |-> "None", src |-> "None"]
NoOutcome == [kind |-> "none", exc |-> NoExc, status |-> 0]
EmptyDict == [x \in {} |-> None]
NoInv == [module |-> <<"__main__">>, args |-> <<>>, kwargs |-> EmptyDict]
NoCall == [params |-> EmptyDict, stacktrace |-> "None", severity |-> "None",
           status |-> "none"]

\* Exit status given to sys.exit.
ExitStatus == 1

\* ------------------------------------------------------------ pure helpers
\* command_name = func.__module__.split('.')[-1]
CommandName(module) == module[Len(module)]

\* Mutant: a session id made anew for every event after the first.
get_session_id_PerEvent ==
  IF Len(events) = 0 THEN sessionId ELSE "alice:3.0:ef"

get_session_id == sessionId

\* Python binds the call send_start(*args, command=command_name, **kwargs),
\* and inside it make_basic_params(**kwargs), without a TypeError: send_start
\* takes no positional argument, `command` may be given once only, and
\* make_basic_params takes exactly its ten named parameters.  The same
\* holds of send_failure(name, trace, *args, command=command_name, **kwargs).
CallBinds(args, kwargs) ==
  /\ Len(args) = 0
  /\ "command" \notin DOMAIN kwargs
  /\ (DOMAIN kwargs) \cup {"command"} = ParamNames

make_basic_params(kw) ==
  [ testcaseId |-> kw["testcase_id"], buildType |-> kw["build"],
    current |-> kw["current"], command |-> kw["command"],
    disableGoma |-> kw["disable_goma"], j |-> kw["j"],
    iterations |-> kw["iterations"], disableXvfb |-> kw["disable_xvfb"],
    targetArgs |-> kw["target_args"], editMode |-> kw["edit_mode"] ]

\* Mutant: the two finished prefixes the wrong way round.
Prefix_Swapped(params) ==
  IF "success" \in DOMAIN params
    THEN (IF Truthy(params["success"]) THEN "unsuccessfully finished"
                                       ELSE "successfully finished")
    ELSE "started"

Prefix(params) ==
  IF "success" \in DOMAIN params
    THEN (IF Truthy(params["success"]) THEN "successfully finished"
                                       ELSE "unsuccessfully finished")
    ELSE "started"

GomaLabel(params) ==
  IF Truthy(params["disableGoma"]) THEN "disabled" ELSE "enabled"

\* Mutant: the stack trace is never appended to the message.
Message_NoTrace(params, stacktrace) ==
  << params["user"], Prefix(params), params["command"], params["testcaseId"],
     params["buildType"], params["current"], GomaLabel(params) >>

\* The message, as the sequence of the pieces the format string joins:
\* user, prefix, command, testcase, build type, current, goma label, and
\* the stack trace appended when there is one.
Message(params, stacktrace) ==
  << params["user"], Prefix(params), params["command"], params["testcaseId"],
     params["buildType"], params["current"], GomaLabel(params) >>
    \o (IF Truthy(stacktrace) THEN << stacktrace >> ELSE << >>)

Severity(stacktrace) == IF Truthy(stacktrace) THEN "ERROR" ELSE "INFO"

\* The record params becomes in send_log before the message is formatted.
Enrich(params) ==
  Put(Put(Put(params, "version", Version), "user", User),
      "sessionId", get_session_id)

\* One call of send_log.  The credentials are loaded before the record is
\* touched, so a credential fault leaves the record as it was given; a POST
\* fault happens with the envelope built.
send_log(params, stacktrace, fault) ==
  IF fault = "cred"
    THEN [ params |-> params, stacktrace |-> stacktrace,
           severity |-> "None", status |-> "cred_failed" ]
    ELSE [ params |-> Put(Enrich(params), "message",
                          Message(Enrich(params), stacktrace)),
           stacktrace |-> stacktrace,
           severity |-> Severity(stacktrace),
           status |-> IF fault = "post" THEN "post_failed" ELSE "sent" ]

\* The exception a fault of send_log raises, raised inside sender `src`.
FaultExc(fault, src) ==
  [ cls |-> IF fault = "cred" THEN "IOError" ELSE "ServerNotFoundError",
    src |-> src ]

\* traceback.format_exc() inside the except clause: never empty.
FormatExc(e) == "Traceback (most recent call last): " \o e.cls

\* Mutant: IOError counted among the expected exceptions.
IsHandled_WithIOError(e) ==
  e.cls \in { "KeyboardInterrupt", "ExpectedException", "IOError" }

\* except (KeyboardInterrupt, common.ExpectedException)
IsHandled(e) == e.cls \in { "KeyboardInterrupt", "ExpectedException" }

\* Keyword arguments the wrapper passes to a sender.
SenderKwargs == Put(inv.kwargs, "command", CommandName(inv.module))

SeenAfter(call) ==
  IF call.status = "sent" THEN sessionsSeen \cup { call.params["sessionId"] }
                          ELSE sessionsSeen

\* -------------------------------------------------------------------- Init
Init ==
  /\ sessionId \in SessionIds
  /\ sessionsSeen = {}
  /\ invocations = 0
  /\ pc = "idle"
  /\ inv = NoInv
  /\ events = << >>
  /\ funcCalls = << >>
  /\ trace = << >>
  /\ failures = << >>
  /\ exc = NoExc
  /\ raised = NoExc
  /\ outcome = NoOutcome
  /\ direct = NoCall

\* ----------------------------------------------------------------- actions
\* The caller calls wrapped(*args, **kwargs).
Invoke ==
  /\ pc = "idle"
  /\ invocations < MaxInvocations
  /\ \E m \in Modules, a \in InputArgs, k \in InputKwargs :
       inv' = [module |-> m, args |-> a, kwargs |-> k]
  /\ invocations' = invocations + 1
  /\ pc' = "send_start"
  /\ direct' = NoCall
  /\ UNCHANGED << sessionId, sessionsSeen, events, funcCalls, trace,
                  failures, exc, raised, outcome >>

\* send_start(*args, command=command_name, **kwargs)
SendStart ==
  /\ pc = "send_start"
  /\ IF ~CallBinds(inv.args, inv.kwargs)
       THEN /\ exc' = [cls |-> "TypeError", src |-> "send_start"]
            /\ pc' = "send_failure"
            /\ UNCHANGED << events, trace, failures, sessionsSeen >>
       ELSE \E fault \in Faults :
              LET call == send_log(make_basic_params(SenderKwargs), None, fault)
              IN /\ events' = Append(events, call)
                 /\ trace' = Append(trace, "send_start")
                 /\ sessionsSeen' = SeenAfter(call)
                 /\ IF fault = "none"
                      THEN /\ pc' = "func"
                           /\ UNCHANGED << exc, failures >>
                      ELSE /\ pc' = "send_failure"
                           /\ exc' = FaultExc(fault, "send_start")
                           /\ failures' = Append(failures, exc')
  /\ UNCHANGED << sessionId, invocations, inv, funcCalls, raised, outcome,
                  direct >>

\* func(*args, **kwargs)
Func ==
  /\ pc = "func"
  /\ funcCalls' = Append(funcCalls, [args |-> inv.args, kwargs |-> inv.kwargs])
  /\ trace' = Append(trace, "func")
  /\ \E r \in {"return"} \cup FuncExceptions :
       IF r = "return"
         THEN /\ pc' = "send_success"
              /\ UNCHANGED << exc, raised >>
         ELSE /\ pc' = "send_failure"
              /\ exc' = [cls |-> r, src |-> "func"]
              /\ raised' = exc'
  /\ UNCHANGED << sessionId, sessionsSeen, invocations, inv, events, failures,
                  outcome, direct >>

\* send_success(*args, command=command_name, **kwargs)
SendSuccess ==
  /\ pc = "send_success"
  /\ \E fault \in Faults :
       LET call == send_log(Put(make_basic_params(SenderKwargs),
                                "success", "True"), None, fault)
       IN /\ events' = Append(events, call)
          /\ trace' = Append(trace, "send_success")
          /\ sessionsSeen' = SeenAfter(call)
          /\ IF fault = "none"
               THEN /\ pc' = "finally"
                    /\ outcome' = [kind |-> "return", exc |-> NoExc, status |-> 0]
                    /\ UNCHANGED << exc, failures >>
               ELSE /\ pc' = "send_failure"
                    /\ exc' = FaultExc(fault, "send_success")
                    /\ failures' = Append(failures, exc')
                    /\ UNCHANGED outcome
  /\ UNCHANGED << sessionId, invocations, inv, funcCalls, raised, direct >>

\* except BaseException as e: send_failure(...); raise
SendFailure ==
  /\ pc = "send_failure"
  /\ pc' = "outer"
  /\ IF ~CallBinds(inv.args, inv.kwargs)
       THEN /\ exc' = [cls |-> "TypeError", src |-> "send_failure"]
            /\ UNCHANGED << events, trace, failures, sessionsSeen >>
       ELSE \E fault \in Faults :
              LET call == send_log(Put(Put(make_basic_params(SenderKwargs),
                                           "exception", exc.cls),
                                       "success", "False"),
                                   FormatExc(exc), fault)
              IN /\ events' = Append(events, call)
                 /\ trace' = Append(trace, "send_failure")
                 /\ sessionsSeen' = SeenAfter(call)
                 /\ IF fault = "none"
                      THEN UNCHANGED << exc, failures >>
                      ELSE /\ exc' = FaultExc(fault, "send_failure")
                           /\ failures' = Append(failures, exc')
  /\ UNCHANGED << sessionId, invocations, inv, funcCalls, raised, outcome,
                  direct >>

\* except (KeyboardInterrupt, common.ExpectedException): logger.info(...);
\* sys.exit(1).  Any other exception goes on to the caller.
OuterExcept ==
  /\ pc = "outer"
  /\ pc' = "finally"
  /\ IF IsHandled(exc)
       THEN /\ trace' = trace \o << "log_info", "sys.exit" >>
            /\ outcome' = [kind |-> "exit", exc |-> NoExc, status |-> ExitStatus]
       ELSE /\ trace' = trace
            /\ outcome' = [kind |-> "raise", exc |-> exc, status |-> 0]
  /\ UNCHANGED << sessionId, sessionsSeen, invocations, inv, events,
                  funcCalls, failures, exc, raised, direct >>

\* Mutant: the trailer is printed only when no process exit is pending.
Finally_NotOnExit ==
  /\ pc = "finally"
  /\ trace' = IF outcome.kind = "exit" THEN trace ELSE Append(trace, "trailer")
  /\ pc' = "done"
  /\ UNCHANGED << sessionId, sessionsSeen, invocations, inv, events,
                  funcCalls, failures, exc, raised, outcome, direct >>

\* finally: print the trailer line; the caller then observes the outcome.
Finally ==
  /\ pc = "finally"
  /\ trace' = Append(trace, "trailer")
  /\ pc' = "done"
  /\ UNCHANGED << sessionId, sessionsSeen, invocations, inv, events,
                  funcCalls, failures, exc, raised, outcome, direct >>

\* The caller goes on after a return or a raise (a process that exited does
\* not); the record of the finished invocation is dropped.
Return ==
  /\ pc = "done"
  /\ outcome.kind # "exit"
  /\ pc' = "idle"
  /\ inv' = NoInv
  /\ events' = << >>
  /\ funcCalls' = << >>
  /\ trace' = << >>
  /\ failures' = << >>
  /\ exc' = NoExc
  /\ raised' = NoExc
  /\ outcome' = NoOutcome
  /\ UNCHANGED << sessionId, sessionsSeen, invocations, direct >>

\* The caller calls send_log(params, stacktrace) itself.
SendLogDirect ==
  /\ pc = "idle"
  /\ \E m \in Modules, s \in DirectSuccess, g \in DirectGoma,
        st \in DirectStacktraces, fault \in Faults :
       LET base == make_basic_params(
                     Put(FullKwargs("123", g), "command", CommandName(m)))
           params == IF s = "absent" THEN base ELSE Put(base, "success", s)
       IN /\ direct' = send_log(params, st, fault)
          /\ sessionsSeen' = SeenAfter(direct')
  /\ UNCHANGED << sessionId, invocations, pc, inv, events, funcCalls, trace,
                  failures, exc, raised, outcome >>

Next ==
  \/ Invoke
  \/ SendStart
  \/ Func
  \/ SendSuccess
  \/ SendFailure
  \/ OuterExcept
  \/ Finally
  \/ Return
  \/ SendLogDirect

Spec == Init /\ [][Next]_vars

\* ------------------------------------------------- vocabulary of the claims
Done == pc = "done"

IsStart(c) == "success" \notin DOMAIN c.params
IsSuccess(c) == "success" \in DOMAIN c.params /\ c.params["success"] = "True"
IsFailure(c) == "success" \in DOMAIN c.params /\ c.params["success"] = "False"

\* send_log got as far as building the message and the envelope.
Built(c) == c.status \in { "sent", "post_failed" }

FuncReturned == funcCalls # << >> /\ raised = NoExc /\ pc # "func"
FuncRaised == raised # NoExc

Count(seq, x) == Cardinality({ i \in 1..Len(seq) : seq[i] = x })

SenderSteps == { "send_start", "send_success", "send_failure" }

\* The last piece of the message of c is its stack trace, which is not empty.
TraceAppended(c) ==
  /\ "message" \in DOMAIN c.params
  /\ c.stacktrace \notin { "None", "" }
  /\ Len(c.params["message"]) = 8
  /\ c.params["message"][8] = c.stacktrace

\* The positional arguments fill the first parameters of the operation and
\* the keyword arguments the others, each parameter once.
ParamOrder == << "testcase_id", "build", "current", "disable_goma", "j",
                 "iterations", "disable_xvfb", "target_args", "edit_mode" >>
WellFormedCall ==
  /\ Len(inv.args) <= Len(ParamOrder)
  /\ DOMAIN inv.kwargs = { ParamOrder[i] : i \in (Len(inv.args) + 1)..Len(ParamOrder) }

\* ------------------------------------------------------------------ claims

\* C1: when the wrapped operation returns normally, exactly two events are
\* sent in the invocation, a start event (no success field) and then a
\* success event (success = true) with the same command and session id, and
\* no failure event.  (Fails: a fault of send_log inside send_success is
\* caught by `except BaseException`, which calls send_failure.)
C1_ReturnSendsStartThenSuccessOnly ==
  (Done /\ FuncReturned) =>
    /\ Len(events) = 2
    /\ IsStart(events[1]) /\ events[1].status = "sent"
    /\ IsSuccess(events[2])
    /\ events[2].params["command"] = events[1].params["command"]
    /\ \A i \in 1..Len(events) : ~IsFailure(events[i])

\* C2 (original): when the wrapped operation raises E, exactly two events are
\* sent, a start event and then a failure event whose record has
\* success = false, exception = class name of E and a non-empty stack trace
\* appended to its message; no success event is sent.
C2_RaiseSendsStartThenFailureWithTrace ==
  (Done /\ FuncRaised) =>
    /\ Len(events) = 2
    /\ IsStart(events[1])
    /\ IsFailure(events[2])
    /\ events[2].params["exception"] = raised.cls
    /\ TraceAppended(events[2])
    /\ \A i \in 1..Len(events) : ~IsSuccess(events[i])

\* C2 (amended): when the wrapped operation raises E, exactly two Event
\* Sender calls are made, the start event and then a failure event whose
\* record has success = false and exception = class name of E and which is
\* given a non-empty stack trace; whenever that call gets past the loading
\* of the credentials the stack trace is appended to the message and the
\* severity is ERROR; no success event is sent.
C2_RaiseCallsStartThenFailure ==
  (Done /\ FuncRaised) =>
    /\ Len(events) = 2
    /\ IsStart(events[1]) /\ events[1].status = "sent"
    /\ IsFailure(events[2])
    /\ events[2].params["exception"] = raised.cls
    /\ events[2].stacktrace \notin { "None", "" }
    /\ Built(events[2]) =>
         (TraceAppended(events[2]) /\ events[2].severity = "ERROR")
    /\ \A i \in 1..Len(events) : ~IsSuccess(events[i])

C2_Witness ==
  /\ Done /\ raised.cls = "KeyboardInterrupt"
  /\ Len(events) = 2 /\ events[2].status = "sent"
  /\ TraceAppended(events[2])

\* C3: when the wrapped operation raises E, neither KeyboardInterrupt nor an
\* expected exception, the caller observes that same E, after the failure
\* event call, and the operation was called once.  (Fails: a fault of
\* send_log inside send_failure replaces E.)
C3_OrdinaryExceptionReachesCaller ==
  (Done /\ FuncRaised
        /\ raised.cls \notin { "KeyboardInterrupt", "ExpectedException" }) =>
    /\ outcome.kind = "raise"
    /\ outcome.exc = raised
    /\ Len(funcCalls) = 1
    /\ Count(trace, "send_failure") = 1

\* C4: when the wrapped operation raises KeyboardInterrupt or an expected
\* exception the caller observes a process exit with status 1 and no
\* exception; for any other class the decorator does not exit and the
\* exception propagates.  (Fails for the same reason as C3.)
C4_ExitOneExactlyOnHandledClasses ==
  (Done /\ FuncRaised) =>
    IF raised.cls \in { "KeyboardInterrupt", "ExpectedException" }
      THEN outcome.kind = "exit" /\ outcome.status = 1 /\ outcome.exc = NoExc
      ELSE outcome.kind = "raise"

\* C5: the trailer line is printed at most once, nothing of the invocation
\* happens after it (it is the last step), every send_log call and every call
\* of the wrapped operation is a step before it, and an invocation that is
\* over has printed it exactly once, whatever its outcome.
C5_TrailerOnceAndLast ==
  /\ Count(trace, "trailer") <= 1
  /\ Count(trace, "trailer") = 1 => trace[Len(trace)] = "trailer"
  /\ Cardinality({ i \in 1..Len(trace) : trace[i] \in SenderSteps }) = Len(events)
  /\ Count(trace, "func") = Len(funcCalls)
  /\ Done => ( /\ Count(trace, "trailer") = 1
               /\ outcome.kind \in { "return", "raise", "exit" } )

C5_Witness ==
  /\ Done /\ outcome.kind = "exit"
  /\ trace = << "send_start", "func", "send_failure", "log_info", "sys.exit",
                "trailer" >>

\* C6: every event record of an invocation that send_log built carries the
\* command name of the invocation (that of its start event) and the session
\* id of the process, and no event sent in the process run, by any
\* invocation, carries another session id.
C6_SameCommandAndSession ==
  /\ \A i \in 1..Len(events) :
       /\ events[i].params["command"] = CommandName(inv.module)
       /\ events[i].params["command"] = events[1].params["command"]
       /\ Built(events[i]) => events[i].params["sessionId"] = sessionId
       /\ (Built(events[i]) /\ Built(events[1])) =>
            events[i].params["sessionId"] = events[1].params["sessionId"]
  /\ sessionsSeen \subseteq { sessionId }

C6_Witness ==
  /\ Done /\ invocations = 2
  /\ Len(events) = 2
  /\ events[1].status = "sent" /\ events[2].status = "sent"
  /\ sessionsSeen = { sessionId }

C8_AnyArgumentsStartThenCallOnce ==
  (Done /\ WellFormedCall /\ failures = << >>) =>
    /\ Len(events) >= 1
    /\ IsStart(events[1])
    /\ events[1].params["command"] = CommandName(inv.module)
    /\ funcCalls = << [args |-> inv.args, kwargs |-> inv.kwargs] >>
    /\ trace[1] = "send_start" /\ trace[2] = "func"

\* C9: in every invocation the wrapped operation is called at most once and
\* only after the start event was sent, a success or failure event is sent
\* only after the start event was sent and the operation called, never both,
\* so at most two Event Sender calls are made.  (Fails: a fault of send_log
\* in send_start or send_success is answered by a send_failure call.)
C9_StartThenOneTerminalEvent ==
  /\ Len(funcCalls) <= 1
  /\ funcCalls # << >> => (events # << >> /\ IsStart(events[1])
                             /\ events[1].status = "sent")
  /\ \A i \in 1..Len(events) :
       (IsSuccess(events[i]) \/ IsFailure(events[i])) =>
         (i > 1 /\ IsStart(events[1]) /\ events[1].status = "sent"
                /\ funcCalls # << >>)
  /\ ~ \E i, j \in 1..Len(events) : IsSuccess(events[i]) /\ IsFailure(events[j])
  /\ Len(events) <= 2

\* C10: in every record send_log builds, the prefix in the message is
\* 'started' without a success field, 'successfully finished' with
\* success true and 'unsuccessfully finished' with success false, the goma
\* label is 'disabled' when disableGoma is true and 'enabled' otherwise, and
\* the severity is 'ERROR' when a (non-empty) stack trace was given and 'INFO'
\* otherwise; among the decorator's events exactly the failure events have
\* severity 'ERROR'.
C10_RecordWellFormed(c) ==
  Built(c) =>
    /\ c.params["message"][2] =
         ( IF "success" \notin DOMAIN c.params THEN "started"
           ELSE IF c.params["success"] = "True" THEN "successfully finished"
           ELSE "unsuccessfully finished" )
    /\ c.params["message"][7] =
         ( IF c.params["disableGoma"] = "True" THEN "disabled" ELSE "enabled" )
    /\ c.severity =
         ( IF c.stacktrace \in { "None", "" } THEN "INFO" ELSE "ERROR" )

C10_PrefixGomaSeverity ==
  /\ C10_RecordWellFormed(direct)
  /\ \A i \in 1..Len(events) :
       /\ C10_RecordWellFormed(events[i])
       /\ Built(events[i]) => (events[i].severity = "ERROR" <=> IsFailure(events[i]))

C10_Witness ==
  /\ direct.status = "sent"
  /\ IsFailure(direct)
  /\ direct.params["disableGoma"] = "None"
  /\ direct.stacktrace = ""
  /\ direct.severity = "INFO"

====
